---------------------------- MODULE Spec2Model ----------------------------
(***************************************************************************)
(* Model of the event-sourced Order aggregate and of the                   *)
(* TotalOrdersProjection of eventually-app-example (src/src/order.rs).     *)
(*                                                                         *)
(* Four specifications share the module:                                   *)
(*   Spec      the application: a store of one event stream per identity,  *)
(*             commands dispatched against it one at a time, a clock, and  *)
(*             the projection fed with the committed events;               *)
(*   SpecFold  the fold of an arbitrary event sequence, one event at a     *)
(*             time, through apply_first / apply_next;                     *)
(*   SpecFeed  committed events delivered to the projection at least once, *)
(*             in per-identity order;                                      *)
(*   SpecConc  commands handled concurrently against one identity, each in *)
(*             a read-decide-append cycle retried on a version conflict;   *)
(*             SpecConcFair adds the fairness of the scheduler.            *)
(***************************************************************************)
EXTENDS Integers, Sequences, FiniteSets

VARIABLES
    overflow_checks, \* build profile: TRUE when u8 `+=` panics on overflow (debug)
    streams,         \* the store: identity -> committed events, in stream order
    now,             \* the wall clock (Utc::now())
    last,            \* the last dispatched command and what came of it
    delivered,       \* identity -> number of its events fed to the projection
    projection,      \* the TotalOrdersProjection counters
    folded,          \* SpecFold: outcome of the fold so far (Ok(Option<Order>) or Err)
    prev,            \* SpecFold: the state the last event was applied to
    ev,              \* SpecFold: the last event applied
    nfolded,         \* SpecFold: how many events have been applied
    es,              \* SpecFold: the events applied, in order
    log,             \* SpecFeed: the committed events of all identities, in commit order
    fed,             \* SpecFeed: the events delivered to the projection, in delivery order
    redeliveries,    \* SpecFeed: how many times the feed went back to an earlier event
    procs            \* SpecConc: command handler -> its command and where it stands

vars == <<overflow_checks, streams, now, last, delivered, projection,
          folded, prev, ev, nfolded, es, log, fed, redeliveries, procs>>

appVars  == <<streams, now, last, delivered, projection>>
foldVars == <<folded, prev, ev, nfolded, es>>
feedVars == <<log, fed, redeliveries>>
concVars == <<procs>>

---------------------------------------------------------------------------
(* Bounds *)

\* Most events the store holds, over all identities.
MaxEvents == 2
\* Last instant of the clock (instants are 0..MaxTime).
MaxTime == 1
\* Longest event sequence folded in SpecFold.
MaxFold == 4
\* Most events committed in SpecFeed, over all identities.
MaxFeed == 3
\* Most times the feed of SpecFeed goes back to an earlier event.
MaxRedeliveries == 1

\* Largest value of OrderItem.quantity (u8).
U8Max == 255

Ids == {"o1", "o2"}
Times == 0..MaxTime

---------------------------------------------------------------------------
(* Values *)

Ok(v)  == [ok |-> TRUE, val |-> v]
Err(e) == [ok |-> FALSE, err |-> e]

None    == [some |-> FALSE]
Some(v) == [some |-> TRUE, val |-> v]

\* OrderError, plus the panic of an arithmetic overflow under overflow checks.
AlreadyCreated   == "AlreadyCreated"
NotYetCreated    == "NotYetCreated"
NotEditable      == "NotEditable"
AlreadyCompleted == "AlreadyCompleted"
AlreadyCancelled == "AlreadyCancelled"
Panic            == "panic: attempt to add with overflow"

OrderError == {AlreadyCreated, NotYetCreated, NotEditable,
               AlreadyCompleted, AlreadyCancelled}

\* The items commands and events carry: a SKU twice, with different prices
\* and with quantities whose sums stay below and go beyond u8::MAX, and
\* another SKU.
OrderItem ==
    { [item_sku |-> "X", quantity |-> 1,   price |-> 5],
      [item_sku |-> "X", quantity |-> 200, price |-> 9],
      [item_sku |-> "Y", quantity |-> 1,   price |-> 5] }

\* OrderState
Editable(t)       == [state |-> "Editable", updated_at |-> t]
Complete(t)       == [state |-> "Complete", at |-> t]
CancelledState(t) == [state |-> "Cancelled", at |-> t]

\* OrderState: the three lifecycle states, each with its one timestamp.
OrderState ==
    {Editable(t) : t \in Times}
    \cup {Complete(t) : t \in Times}
    \cup {CancelledState(t) : t \in Times}

\* OrderCommand
Create        == [type |-> "Create"]
AddItem(item) == [type |-> "AddItem", item |-> item]
CompleteCmd   == [type |-> "Complete"]
Cancel        == [type |-> "Cancel"]

OrderCommand == {Create, CompleteCmd, Cancel} \cup {AddItem(i) : i \in OrderItem}

\* OrderEvent
Created(id, at)     == [type |-> "Created", id |-> id, at |-> at]
ItemAdded(item, at) == [type |-> "ItemAdded", item |-> item, at |-> at]
Completed(at)       == [type |-> "Completed", at |-> at]
Cancelled(at)       == [type |-> "Cancelled", at |-> at]

OrderEvent ==
    {Created(i, t) : i \in Ids, t \in Times}
    \cup {ItemAdded(i, t) : i \in OrderItem, t \in Times}
    \cup {Completed(t) : t \in Times}
    \cup {Cancelled(t) : t \in Times}

is_editable(order) == order.state.state = "Editable"

---------------------------------------------------------------------------
(* VecExt::insert_or_merge *)

\* Index of the first line with the item's SKU, 0 when there is none
\* (iter_mut().find(..)).
find(items, item) ==
    IF \E i \in 1..Len(items) : items[i].item_sku = item.item_sku
    THEN CHOOSE i \in 1..Len(items) :
            /\ items[i].item_sku = item.item_sku
            /\ \A j \in 1..(i - 1) : items[j].item_sku # item.item_sku
    ELSE 0

\* `it.quantity += item.quantity` on u8: panics when overflow checks are on
\* and the sum exceeds u8::MAX, wraps modulo 2^8 when they are off.
add_assign(a, b) ==
    IF a + b > U8Max /\ overflow_checks
    THEN Err(Panic)
    ELSE Ok((a + b) % (U8Max + 1))

\* Mutant: the item is pushed whether or not its SKU has a line.
insert_or_merge_always_push(items, item) == Ok(Append(items, item))

insert_or_merge(items, item) ==
    LET i == find(items, item) IN
    IF i # 0
    THEN LET q == add_assign(items[i].quantity, item.quantity) IN
         IF q.ok THEN Ok([items EXCEPT ![i].quantity = q.val]) ELSE q
    ELSE Ok(Append(items, item))

---------------------------------------------------------------------------
(* impl Aggregate for OrderAggregate *)

\* Mutant: the order is stamped with the default instant, not the event's.
apply_first_default_time(event) ==
    IF event.type = "Created"
    THEN Ok([id |-> event.id, created_at |-> 0, items |-> <<>>,
             state |-> Editable(0)])
    ELSE Err(NotYetCreated)

apply_first(event) ==
    IF event.type = "Created"
    THEN Ok([id |-> event.id, created_at |-> event.at, items |-> <<>>,
             state |-> Editable(event.at)])
    ELSE Err(NotYetCreated)

\* The arms of apply_next's match, one per event kind.
\* Mutant: the lifecycle is checked before the event kind.
apply_created_after_lifecycle(state, event) ==
    IF state.state.state = "Editable"
    THEN Err(AlreadyCreated)
    ELSE Err(NotEditable)

apply_created(state, event) == Err(AlreadyCreated)

\* Mutant: the item is merged and updated_at is left as it was.
apply_item_added_keeping_time(state, event) ==
    IF state.state.state = "Editable"
    THEN LET merged == insert_or_merge(state.items, event.item) IN
         IF merged.ok
         THEN Ok([state EXCEPT !.items = merged.val])
         ELSE merged
    ELSE Err(NotEditable)

apply_item_added(state, event) ==
    IF state.state.state = "Editable"
    THEN LET merged == insert_or_merge(state.items, event.item) IN
         IF merged.ok
         THEN Ok([state EXCEPT !.state = Editable(event.at),
                               !.items = merged.val])
         ELSE merged
    ELSE Err(NotEditable)

\* Mutant: only an order already complete is refused completion.
apply_completed_from_cancelled(state, event) ==
    IF state.state.state = "Complete" THEN Err(AlreadyCompleted)
    ELSE Ok([state EXCEPT !.state = Complete(event.at)])

\* Mutant: the check for an order already complete is missing.
apply_completed_unchecked(state, event) ==
    IF state.state.state = "Editable"
    THEN Ok([state EXCEPT !.state = Complete(event.at)])
    ELSE Err(NotEditable)

apply_completed(state, event) ==
    IF state.state.state = "Complete" THEN Err(AlreadyCompleted)
    ELSE IF state.state.state = "Editable"
         THEN Ok([state EXCEPT !.state = Complete(event.at)])
         ELSE Err(NotEditable)

\* Mutant: every order that is not editable is reported as already cancelled.
apply_cancelled_any_closed(state, event) ==
    IF state.state.state = "Editable"
    THEN Ok([state EXCEPT !.state = CancelledState(event.at)])
    ELSE Err(AlreadyCancelled)

apply_cancelled(state, event) ==
    IF state.state.state = "Cancelled" THEN Err(AlreadyCancelled)
    ELSE IF state.state.state = "Editable"
         THEN Ok([state EXCEPT !.state = CancelledState(event.at)])
         ELSE Err(NotEditable)

apply_next(state, event) ==
    CASE event.type = "Created"   -> apply_created(state, event)
      [] event.type = "ItemAdded" -> apply_item_added(state, event)
      [] event.type = "Completed" -> apply_completed(state, event)
      [] event.type = "Cancelled" -> apply_cancelled(state, event)

\* Mutant: a Complete command is mapped to its event without a state.
handle_first_maps_complete(id, command, utc_now) ==
    CASE command.type = "Create"   -> Ok(<<Created(id, utc_now)>>)
      [] command.type = "Complete" -> Ok(<<Completed(utc_now)>>)
      [] OTHER -> Err(NotYetCreated)

\* utc_now is the value Utc::now() returns during the call.
handle_first(id, command, utc_now) ==
    IF command.type = "Create"
    THEN Ok(<<Created(id, utc_now)>>)
    ELSE Err(NotYetCreated)

\* Mutant: the events are stamped with the default instant, not the clock's.
handle_next_default_time(id, state, command, utc_now) ==
    CASE command.type = "Create"   -> Err(AlreadyCreated)
      [] command.type = "AddItem"  -> Ok(<<ItemAdded(command.item, 0)>>)
      [] command.type = "Complete" -> Ok(<<Completed(0)>>)
      [] command.type = "Cancel"   -> Ok(<<Cancelled(0)>>)

\* Mutant: a Cancel command is mapped to a Completed event.
handle_next_cancel_as_completed(id, state, command, utc_now) ==
    CASE command.type = "Create"   -> Err(AlreadyCreated)
      [] command.type = "AddItem"  -> Ok(<<ItemAdded(command.item, utc_now)>>)
      [] command.type = "Complete" -> Ok(<<Completed(utc_now)>>)
      [] command.type = "Cancel"   -> Ok(<<Completed(utc_now)>>)

handle_next(id, state, command, utc_now) ==
    CASE command.type = "Create"   -> Err(AlreadyCreated)
      [] command.type = "AddItem"  -> Ok(<<ItemAdded(command.item, utc_now)>>)
      [] command.type = "Complete" -> Ok(<<Completed(utc_now)>>)
      [] command.type = "Cancel"   -> Ok(<<Cancelled(utc_now)>>)

---------------------------------------------------------------------------
(* The optional-aggregate adapter and the aggregate root: replay and        *)
(* command dispatch (spec.md section 4.1)                                   *)

\* One event folded onto an optional state.
apply(state, event) ==
    IF state.some THEN apply_next(state.val, event) ELSE apply_first(event)

\* Mutant: a rejected event is skipped and the fold goes on.
RECURSIVE fold_skipping_rejected(_, _)
fold_skipping_rejected(state, events) ==
    IF events = <<>> THEN Ok(state)
    ELSE LET r == apply(state, Head(events)) IN
         IF r.ok THEN fold_skipping_rejected(Some(r.val), Tail(events))
         ELSE fold_skipping_rejected(state, Tail(events))

\* Fold of events onto an optional state; the first error aborts the fold.
RECURSIVE fold(_, _)
fold(state, events) ==
    IF events = <<>> THEN Ok(state)
    ELSE LET r == apply(state, Head(events)) IN
         IF r.ok THEN fold(Some(r.val), Tail(events)) ELSE r

replay(events) == fold(None, events)

\* What the aggregate decides for a command given the replayed state.
handle(id, state, command, utc_now) ==
    IF state.some THEN handle_next(id, state.val, command, utc_now)
    ELSE handle_first(id, command, utc_now)

\* Read-decide-apply of one command against the loaded stream: the proposed
\* events when they fold onto the replayed state, else the first error.
decide(id, loaded, command, utc_now) ==
    LET current == replay(loaded) IN
    IF ~current.ok THEN current
    ELSE LET proposed == handle(id, current.val, command, utc_now) IN
         IF ~proposed.ok THEN proposed
         ELSE LET applied == fold(current.val, proposed.val) IN
              IF applied.ok THEN proposed ELSE applied

---------------------------------------------------------------------------
(* TotalOrdersProjection *)

TotalOrdersProjection == [created |-> 0, completed |-> 0, cancelled |-> 0]

Persisted(source_id, event) == [source_id |-> source_id, event |-> event]

\* Mutant: a Cancelled event is counted as a completion.
project_cancelled_as_completed(self, persisted) ==
    LET event == persisted.event IN
    CASE event.type = "Created"   -> [self EXCEPT !.created = @ + 1]
      [] event.type = "Completed" -> [self EXCEPT !.completed = @ + 1]
      [] event.type = "Cancelled" -> [self EXCEPT !.completed = @ + 1]
      [] OTHER -> self

\* Mutant: a Completed event sets completed from the created counter.
project_completed_from_created(self, persisted) ==
    LET event == persisted.event IN
    CASE event.type = "Created"   -> [self EXCEPT !.created = @ + 1]
      [] event.type = "Completed" -> [self EXCEPT !.completed = self.created]
      [] event.type = "Cancelled" -> [self EXCEPT !.cancelled = @ + 1]
      [] OTHER -> self

\* project cannot fail (Error = Infallible): the result is the new counters.
project(self, persisted) ==
    LET event == persisted.event IN
    CASE event.type = "Created"   -> [self EXCEPT !.created = @ + 1]
      [] event.type = "Completed" -> [self EXCEPT !.completed = @ + 1]
      [] event.type = "Cancelled" -> [self EXCEPT !.cancelled = @ + 1]
      [] OTHER -> self

\* A projection rebuilt: a stream of persisted events folded into it at once,
\* from the stream's first position.
RECURSIVE project_all(_, _)
project_all(self, persisted_events) ==
    IF persisted_events = <<>> THEN self
    ELSE project_all(project(self, Head(persisted_events)),
                     Tail(persisted_events))

---------------------------------------------------------------------------
(* Spec: the application *)

RECURSIVE SumLen(_, _)
SumLen(f, S) ==
    IF S = {} THEN 0
    ELSE LET i == CHOOSE x \in S : TRUE IN Len(f[i]) + SumLen(f, S \ {i})

\* Number of events the store holds.
Stored == SumLen(streams, Ids)

NoDispatch == [id |-> "none", command |-> Create, t |-> 0, loaded |-> <<>>,
               result |-> Err("none")]
NoEvent == [type |-> "none"]

FoldIdle ==
    /\ folded = Ok(None)
    /\ prev = None
    /\ ev = NoEvent
    /\ nfolded = 0
    /\ es = <<>>

FeedIdle ==
    /\ log = <<>>
    /\ fed = <<>>
    /\ redeliveries = 0

ConcIdle == procs = <<>>

Init ==
    /\ overflow_checks \in BOOLEAN
    /\ streams = [i \in Ids |-> <<>>]
    /\ now = 0
    /\ last = NoDispatch
    /\ delivered = [i \in Ids |-> 0]
    /\ projection = TotalOrdersProjection
    /\ FoldIdle
    /\ FeedIdle
    /\ ConcIdle

\* Time passes.
Tick ==
    /\ now < MaxTime
    /\ now' = now + 1
    /\ UNCHANGED <<overflow_checks, streams, last, delivered, projection, foldVars, feedVars, concVars>>

\* A command for identity id is submitted at `now` and handled to the end:
\* the stream is loaded and replayed, the command decided at the clock value
\* utc_now read meanwhile, and the proposed events appended when they apply.
Dispatch(id, command) ==
    \E utc_now \in now..(IF now < MaxTime THEN now + 1 ELSE now) :
        LET loaded == streams[id]
            result == decide(id, loaded, command, utc_now)
        IN  /\ result.ok => Stored + Len(result.val) <= MaxEvents
            /\ streams' = IF result.ok
                          THEN [streams EXCEPT ![id] = loaded \o result.val]
                          ELSE streams
            /\ now' = utc_now
            /\ last' = [id |-> id, command |-> command, t |-> now,
                        loaded |-> loaded, result |-> result]
            /\ UNCHANGED <<overflow_checks, delivered, projection, foldVars, feedVars, concVars>>

\* The projection feed delivers the next committed event of one identity.
Project(id) ==
    /\ delivered[id] < Len(streams[id])
    /\ projection' = project(projection,
                             Persisted(id, streams[id][delivered[id] + 1]))
    /\ delivered' = [delivered EXCEPT ![id] = @ + 1]
    /\ UNCHANGED <<overflow_checks, streams, now, last, foldVars, feedVars, concVars>>

Next ==
    \/ Tick
    \/ \E id \in Ids, command \in OrderCommand : Dispatch(id, command)
    \/ \E id \in Ids : Project(id)

Spec == Init /\ [][Next]_vars

---------------------------------------------------------------------------
(* Properties of Spec *)

\* A command has been dispatched.
Dispatched == last.id \in Ids

\* The state the last command was decided against (None for an empty stream).
LastCurrent == replay(last.loaded).val

\* Lifecycle of the state the last command was decided against.
LastLifecycle ==
    IF LastCurrent.some THEN LastCurrent.val.state.state ELSE "None"

\* The last command was rejected with error e and left the stream as loaded.
Rejected(e) ==
    /\ last.result = Err(e)
    /\ streams[last.id] = last.loaded

\* C1: a command for an identity with an empty stream is decided by
\* handle_first, any other by handle_next on the replayed state; against a
\* Complete order AddItem and Cancel fail with NotEditable, against a
\* Cancelled order AddItem and Complete fail with NotEditable, and the stream
\* keeps the events it had.
C1_ClosedOrderRejectsEdits ==
    Dispatched =>
        /\ (last.loaded = <<>>) <=> ~LastCurrent.some
        /\ ~LastCurrent.some =>
                /\ last.command.type # "Create" => Rejected(NotYetCreated)
                /\ last.command.type = "Create" => last.result.ok
        /\ (LastCurrent.some /\ last.command.type = "Create")
                => Rejected(AlreadyCreated)
        /\ (LastLifecycle = "Complete"
                /\ last.command.type \in {"AddItem", "Cancel"})
                => Rejected(NotEditable)
        /\ (LastLifecycle = "Cancelled"
                /\ last.command.type \in {"AddItem", "Complete"})
                => Rejected(NotEditable)

C1_Witness ==
    /\ Dispatched
    /\ LastLifecycle = "Complete"
    /\ last.command.type = "Cancel"
    /\ Rejected(NotEditable)

\* C2: Complete dispatched again after Create and Complete were committed
\* fails with AlreadyCompleted, Cancel dispatched again after Create and
\* Cancel were committed fails with AlreadyCancelled, and the stream keeps the
\* events it had.
C2_RepeatedTerminalCommand ==
    (Dispatched /\ last.loaded # <<>>) =>
        LET committed == last.loaded[Len(last.loaded)].type IN
        /\ (last.loaded[1].type = "Created" /\ committed = "Completed"
                /\ last.command.type = "Complete")
                => Rejected(AlreadyCompleted)
        /\ (last.loaded[1].type = "Created" /\ committed = "Cancelled"
                /\ last.command.type = "Cancel")
                => Rejected(AlreadyCancelled)

C2_Witness ==
    /\ Dispatched
    /\ Len(last.loaded) = 2
    /\ last.loaded[2].type = "Completed"
    /\ last.command.type = "Complete"
    /\ Rejected(AlreadyCompleted)

\* C5: without a state only creation is accepted: handle_first answers
\* AddItem, Complete and Cancel with NotYetCreated, apply_first answers
\* ItemAdded, Completed and Cancelled with NotYetCreated, and every identity
\* that has a state has a stream starting with a Created event.
C5_CreationPrecondition ==
    /\ \A id \in Ids, command \in OrderCommand, t \in Times :
            command.type # "Create"
                => handle_first(id, command, t) = Err(NotYetCreated)
    /\ \A event \in OrderEvent :
            event.type # "Created" => apply_first(event) = Err(NotYetCreated)
    /\ (Dispatched /\ last.loaded = <<>> /\ last.command.type # "Create")
            => Rejected(NotYetCreated)
    /\ \A id \in Ids :
            LET current == replay(streams[id]) IN
            /\ current.ok
            /\ current.val.some
                    => (streams[id] # <<>> /\ streams[id][1].type = "Created")

C5_Witness ==
    /\ Dispatched
    /\ last.loaded = <<>>
    /\ last.command.type = "AddItem"
    /\ Rejected(NotYetCreated)
    /\ \E id \in Ids : replay(streams[id]).val.some

\* C7: Create for an identity with an empty stream, submitted at time t,
\* succeeds with one Created event, and the order it yields is Editable, has
\* no items, has created_at equal to the event's timestamp and not before t,
\* and has updated_at equal to created_at.
C7_CreateYieldsFreshOrder ==
    (Dispatched /\ last.loaded = <<>> /\ last.command.type = "Create") =>
        /\ last.result.ok
        /\ Len(last.result.val) = 1
        /\ last.result.val[1].type = "Created"
        /\ streams[last.id] = last.result.val
        /\ LET order == replay(streams[last.id]) IN
            /\ order.ok
            /\ order.val.some
            /\ is_editable(order.val.val)
            /\ order.val.val.items = <<>>
            /\ order.val.val.created_at = last.result.val[1].at
            /\ order.val.val.created_at >= last.t
            /\ order.val.val.state = Editable(order.val.val.created_at)

C7_Witness ==
    /\ Dispatched
    /\ last.loaded = <<>>
    /\ last.command.type = "Create"
    /\ last.result.ok
    /\ last.result.val[1].at > last.t
    /\ replay(streams[last.id]).val.val.created_at > 0

\* C10: project yields counters for every event and every counter value
\* reached: Created adds one to created, Completed one to completed,
\* Cancelled one to cancelled, each leaving the other two counters as they
\* were, ItemAdded leaves all three as they were, and the result is the same
\* whichever identity the event comes from.
C10_ProjectCountsByKind ==
    \A event \in OrderEvent, id \in Ids :
        LET after == project(projection, Persisted(id, event)) IN
        /\ event.type = "Created"
                => after = [projection EXCEPT !.created = projection.created + 1]
        /\ event.type = "Completed"
                => after = [projection EXCEPT !.completed = projection.completed + 1]
        /\ event.type = "Cancelled"
                => after = [projection EXCEPT !.cancelled = projection.cancelled + 1]
        /\ event.type = "ItemAdded" => after = projection
        /\ \A other \in Ids :
                project(projection, Persisted(other, event)) = after

C10_Witness ==
    /\ projection.created = 1
    /\ projection.cancelled = 1
    /\ \E id \in Ids : delivered[id] = 2

\* The event a command is mapped to when it is handled at clock value t.
EventOf(id, command, t) ==
    CASE command.type = "Create"   -> Created(id, t)
      [] command.type = "AddItem"  -> ItemAdded(command.item, t)
      [] command.type = "Complete" -> Completed(t)
      [] command.type = "Cancel"   -> Cancelled(t)

\* C15: handle_first maps Create to exactly one Created event with the given
\* identity; handle_next maps AddItem to exactly one ItemAdded with the same
\* item, Complete to exactly one Completed and Cancel to exactly one
\* Cancelled; the event carries the clock value read in the call, which for
\* a dispatched command lies between its submission and the present; and no
\* command is answered with an empty list or with more than one event.
C15_OneEventPerCommand ==
    /\ \A id \in Ids, t \in Times :
            handle_first(id, Create, t) = Ok(<<Created(id, t)>>)
    /\ \A id \in Ids :
            LET current == replay(streams[id]) IN
            \A command \in OrderCommand, t \in Times :
                LET events == handle(id, current.val, command, t) IN
                /\ events.ok => events.val = <<EventOf(id, command, t)>>
                /\ (current.val.some /\ command # Create) => events.ok
    /\ (Dispatched /\ last.result.ok) =>
            \E t \in last.t..now :
                last.result.val = <<EventOf(last.id, last.command, t)>>

C15_Witness ==
    /\ Dispatched
    /\ last.command = AddItem([item_sku |-> "X", quantity |-> 200, price |-> 9])
    /\ last.result = Ok(<<ItemAdded(last.command.item, 1)>>)
    /\ last.t = 0
    /\ Len(last.loaded) = 1
    /\ streams[last.id] = Append(last.loaded, last.result.val[1])

---------------------------------------------------------------------------
(* SpecFold: an arbitrary event sequence folded one event at a time *)

AppIdle ==
    /\ streams = [i \in Ids |-> <<>>]
    /\ now = 0
    /\ last = NoDispatch
    /\ delivered = [i \in Ids |-> 0]
    /\ projection = TotalOrdersProjection

InitFold ==
    /\ overflow_checks \in BOOLEAN
    /\ AppIdle
    /\ FoldIdle
    /\ FeedIdle
    /\ ConcIdle

\* The next event of the sequence is applied to the state folded so far; a
\* rejected event ends the fold with its error.
ApplyEvent(event) ==
    /\ folded.ok
    /\ nfolded < MaxFold
    /\ prev' = folded.val
    /\ ev' = event
    /\ folded' = LET r == apply(folded.val, event) IN
                 IF r.ok THEN Ok(Some(r.val)) ELSE r
    /\ nfolded' = nfolded + 1
    /\ es' = Append(es, event)
    /\ UNCHANGED <<overflow_checks, appVars, feedVars, concVars>>

NextFold == \E event \in OrderEvent : ApplyEvent(event)

SpecFold == InitFold /\ [][NextFold]_vars

---------------------------------------------------------------------------
(* Properties of SpecFold *)

\* The last event was applied to an existing order (by apply_next).
AppliedNext == nfolded > 0 /\ prev.some

\* The last event was applied without a prior state (by apply_first).
AppliedFirst == nfolded > 0 /\ ~prev.some

\* Lifecycle of the order the last event was applied to.
PrevLifecycle == IF prev.some THEN prev.val.state.state ELSE "None"

\* The rejections of apply_next's table: what each event kind is answered
\* with on a Complete and on a Cancelled order.
RejectionsHold ==
    AppliedNext =>
        /\ (ev.type = "Completed" /\ PrevLifecycle = "Complete")
                => folded = Err(AlreadyCompleted)
        /\ (ev.type = "Cancelled" /\ PrevLifecycle = "Complete")
                => folded = Err(NotEditable)
        /\ (ev.type = "Cancelled" /\ PrevLifecycle = "Cancelled")
                => folded = Err(AlreadyCancelled)
        /\ (ev.type = "Completed" /\ PrevLifecycle = "Cancelled")
                => folded = Err(NotEditable)
        /\ (ev.type = "ItemAdded" /\ PrevLifecycle \in {"Complete", "Cancelled"})
                => folded = Err(NotEditable)

\* C3: apply_next answers Completed on Complete with AlreadyCompleted,
\* Cancelled on Complete with NotEditable, Cancelled on Cancelled with
\* AlreadyCancelled, Completed on Cancelled with NotEditable, ItemAdded on
\* Complete or Cancelled with NotEditable, and ItemAdded, Completed and
\* Cancelled each succeed on an Editable order.
C3_RejectionTable ==
    /\ RejectionsHold
    /\ (AppliedNext /\ PrevLifecycle = "Editable"
            /\ ev.type \in {"ItemAdded", "Completed", "Cancelled"})
            => folded.ok

\* C4: an order is in exactly one of Editable, Complete and Cancelled; an
\* applied event changes the lifecycle only from Editable to Complete or
\* from Editable to Cancelled; and on a Complete or Cancelled order every
\* event, and the event of every command, is rejected, so that its lifecycle
\* and its items stay as they are.
C4_LifecycleOneWay ==
    /\ (folded.ok /\ folded.val.some) => folded.val.val.state \in OrderState
    /\ (AppliedNext /\ folded.ok) =>
            /\ PrevLifecycle = "Editable"
            /\ folded.val.val.state.state \in {"Editable", "Complete", "Cancelled"}
    /\ (AppliedNext /\ PrevLifecycle \in {"Complete", "Cancelled"})
            => ~folded.ok
    /\ (folded.ok /\ folded.val.some
            /\ folded.val.val.state.state \in {"Complete", "Cancelled"}) =>
            /\ \A event \in OrderEvent : ~apply_next(folded.val.val, event).ok
            /\ \A command \in OrderCommand, t \in Times :
                    LET events == handle_next(folded.val.val.id, folded.val.val,
                                              command, t)
                    IN  events.ok => ~fold(folded.val, events.val).ok

C4_Witness ==
    /\ AppliedNext
    /\ PrevLifecycle = "Cancelled"
    /\ ev.type = "Completed"
    /\ folded = Err(NotEditable)

\* C6: an order is created at most once: handle_next answers Create with
\* AlreadyCreated for every existing order, and apply_next answers Created
\* with AlreadyCreated for every existing order, Complete and Cancelled ones
\* included.
C6_CreatedAtMostOnce ==
    /\ (AppliedNext /\ ev.type = "Created") => folded = Err(AlreadyCreated)
    /\ (folded.ok /\ folded.val.some) =>
            \A id \in Ids, t \in Times :
                handle_next(id, folded.val.val, Create, t) = Err(AlreadyCreated)

C6_Witness ==
    /\ AppliedNext
    /\ PrevLifecycle = "Cancelled"
    /\ ev.type = "Created"
    /\ folded = Err(AlreadyCreated)

\* No two lines of the list carry the same SKU.
NoDuplicateSku(items) ==
    \A i, j \in 1..Len(items) :
        i # j => items[i].item_sku # items[j].item_sku

\* The last event was an ItemAdded applied with success to an existing order.
ItemApplied == AppliedNext /\ ev.type = "ItemAdded" /\ folded.ok

\* The SKU of the last event had a line in the order it was applied to.
SkuPresent == find(prev.val.items, ev.item) # 0

\* C8: no two lines of an order share a SKU; an ItemAdded whose SKU has a
\* line keeps the number of lines, their order and the line's position, and
\* changes nothing but that line's quantity; an ItemAdded with a new SKU
\* appends one line and keeps the others.
C8_OneLinePerSku ==
    /\ (folded.ok /\ folded.val.some) => NoDuplicateSku(folded.val.val.items)
    /\ ItemApplied =>
            LET before == prev.val.items
                after  == folded.val.val.items
            IN  IF SkuPresent
                THEN /\ Len(after) = Len(before)
                     /\ \A i \in 1..Len(before) :
                            /\ after[i].item_sku = before[i].item_sku
                            /\ after[i].price = before[i].price
                            /\ before[i].item_sku # ev.item.item_sku
                                    => after[i] = before[i]
                ELSE after = Append(before, ev.item)

C8_Witness ==
    /\ ItemApplied
    /\ SkuPresent
    /\ Len(prev.val.items) = 2
    /\ prev.val.items[1].item_sku = ev.item.item_sku
    /\ prev.val.items[1].price # ev.item.price
    /\ folded.val.val.items[1].quantity # prev.val.items[1].quantity

\* C9: an ItemAdded applied to an Editable order that has a line for its
\* SKU succeeds, and the line's quantity becomes the sum of the line's
\* quantity and the added one.
C9_MergedQuantityIsSum ==
    (AppliedNext /\ PrevLifecycle = "Editable" /\ ev.type = "ItemAdded"
        /\ SkuPresent) =>
        LET i == find(prev.val.items, ev.item) IN
        /\ folded.ok
        /\ folded.val.val.items[i].quantity
                = prev.val.items[i].quantity + ev.item.quantity

\* The last event of the sequence was rejected.
LastRejected == nfolded > 0 /\ ~folded.ok

\* C14: replay of a sequence stops at the first event apply_first or
\* apply_next rejects: every event before it was applied, the outcome is
\* that event's error and nothing else (no state folded so far), and
\* whatever events follow it in the sequence the outcome is the same.
C14_ReplayStopsAtFirstError ==
    /\ folded.ok => replay(es) = folded
    /\ LastRejected =>
            /\ replay(SubSeq(es, 1, Len(es) - 1)) = Ok(prev)
            /\ folded = apply(prev, ev)
            /\ DOMAIN folded = {"ok", "err"}
            /\ replay(es) = folded
            /\ \A event \in OrderEvent : replay(Append(es, event)) = folded

C14_Witness ==
    /\ LastRejected
    /\ Len(es) = 3
    /\ es[2].type = "Completed"
    /\ ev.type = "ItemAdded"
    /\ folded = Err(NotEditable)
    /\ prev.val.items = <<>>
    /\ replay(Append(es, Cancelled(0))) = Err(NotEditable)

\* C19: an event applied with success to an existing order leaves its id
\* and created_at as they were; Completed and Cancelled leave the items as
\* they were and set the lifecycle timestamp to the event's; ItemAdded keeps
\* the order Editable with updated_at set to the event's timestamp; and the
\* id and created_at of every folded order are those of the Created event
\* the sequence starts with.
C19_ApplyNextFrame ==
    /\ (AppliedNext /\ folded.ok) =>
            LET before == prev.val
                after  == folded.val.val
            IN  /\ after.id = before.id
                /\ after.created_at = before.created_at
                /\ ev.type = "Completed" =>
                        /\ after.items = before.items
                        /\ after.state = Complete(ev.at)
                /\ ev.type = "Cancelled" =>
                        /\ after.items = before.items
                        /\ after.state = CancelledState(ev.at)
                /\ ev.type = "ItemAdded" => after.state = Editable(ev.at)
    /\ (folded.ok /\ folded.val.some) =>
            /\ es[1].type = "Created"
            /\ folded.val.val.id = es[1].id
            /\ folded.val.val.created_at = es[1].at

C19_Witness ==
    /\ AppliedNext
    /\ folded.ok
    /\ Len(es) = 4
    /\ es[1] = Created("o2", 0)
    /\ es[3].type = "ItemAdded"
    /\ ev = Cancelled(1)
    /\ Len(folded.val.val.items) = 2
    /\ prev.val.state = Editable(0)
    /\ folded.val.val.created_at = 0

---------------------------------------------------------------------------
(* SpecFeed: the projection feed *)

InitFeed ==
    /\ overflow_checks \in BOOLEAN
    /\ AppIdle
    /\ FoldIdle
    /\ FeedIdle
    /\ ConcIdle

\* A command for identity id is handled to the end at the clock's instant and
\* its events are committed: appended to the identity's stream and to the
\* store's history.
Commit(id, command) ==
    LET loaded == streams[id]
        result == decide(id, loaded, command, now)
    IN  /\ result.ok
        /\ Len(log) + Len(result.val) <= MaxFeed
        /\ streams' = [streams EXCEPT ![id] = loaded \o result.val]
        /\ log' = log \o [i \in 1..Len(result.val) |->
                            Persisted(id, result.val[i])]
        /\ UNCHANGED <<overflow_checks, now, last, delivered, projection, fed,
                       redeliveries, foldVars, concVars>>

\* The feed delivers the next committed event of one identity.
Deliver(id) ==
    /\ delivered[id] < Len(streams[id])
    /\ LET persisted == Persisted(id, streams[id][delivered[id] + 1]) IN
        /\ projection' = project(projection, persisted)
        /\ fed' = Append(fed, persisted)
    /\ delivered' = [delivered EXCEPT ![id] = @ + 1]
    /\ UNCHANGED <<overflow_checks, streams, now, last, log, redeliveries,
                   foldVars, concVars>>

\* The feed goes back by one event of one identity, and will deliver the
\* events from there on once more (delivery is at least once).
Redeliver(id) ==
    /\ redeliveries < MaxRedeliveries
    /\ delivered[id] > 0
    /\ delivered' = [delivered EXCEPT ![id] = @ - 1]
    /\ redeliveries' = redeliveries + 1
    /\ UNCHANGED <<overflow_checks, streams, now, last, projection, log, fed,
                   foldVars, concVars>>

NextFeed ==
    \/ \E id \in Ids, command \in OrderCommand : Commit(id, command)
    \/ \E id \in Ids : Deliver(id)
    \/ \E id \in Ids : Redeliver(id)

SpecFeed == InitFeed /\ [][NextFeed]_vars

---------------------------------------------------------------------------
(* Properties of SpecFeed *)

\* The events of identity id delivered so far, as persisted events.
DeliveredOf(id) ==
    [i \in 1..delivered[id] |-> Persisted(id, streams[id][i])]

\* The delivered events, identity by identity.
RECURSIVE ByIdentity(_)
ByIdentity(S) ==
    IF S = {} THEN <<>>
    ELSE LET id == CHOOSE x \in S : TRUE IN
         DeliveredOf(id) \o ByIdentity(S \ {id})

\* Every committed event has been delivered.
AllDelivered == \A id \in Ids : delivered[id] = Len(streams[id])

\* C11: the counters folded one event at a time equal those of the delivered
\* stream folded at once from its first position; and when each event was
\* delivered once, in its identity's order, they equal those of every other
\* interleaving of the same events: identity by identity, and, once all
\* events are delivered, the order of commit.
C11_ReplayEquivalence ==
    /\ projection = project_all(TotalOrdersProjection, fed)
    /\ redeliveries = 0 =>
            /\ projection = project_all(TotalOrdersProjection, ByIdentity(Ids))
            /\ AllDelivered
                    => projection = project_all(TotalOrdersProjection, log)

C11_Witness ==
    /\ redeliveries = 0
    /\ AllDelivered
    /\ Len(log) = 3
    /\ fed # log
    /\ fed # ByIdentity(Ids)
    /\ projection.completed = 1

\* C17: once every committed event has been delivered, the counters equal
\* those of a projection rebuilt from the whole committed history.
C17_FedEqualsRebuilt ==
    AllDelivered => projection = project_all(TotalOrdersProjection, log)

---------------------------------------------------------------------------
(* SpecConc: commands handled concurrently against one identity *)

\* The command handlers, and the identity their commands are for.
Procs == {"p1", "p2"}
ConcId == "o1"

NoResult == Err("none")

\* A handler about to start its first read-decide-append cycle.
Submitted(command) ==
    [command |-> command, pc |-> "read", attempts |-> 0, loaded |-> <<>>,
     read_at |-> 0, proposed |-> <<>>, result |-> NoResult]

\* The identity is new or was created at instant 0, and every handler holds
\* one command.
InitConc ==
    /\ overflow_checks \in BOOLEAN
    /\ streams \in {[i \in Ids |-> <<>>],
                    [i \in Ids |-> IF i = ConcId
                                   THEN <<Created(ConcId, 0)>> ELSE <<>>]}
    /\ now = 0
    /\ last = NoDispatch
    /\ delivered = [i \in Ids |-> 0]
    /\ projection = TotalOrdersProjection
    /\ FoldIdle
    /\ FeedIdle
    /\ procs \in [Procs -> {Submitted(c) : c \in OrderCommand}]

\* Store read: the handler loads the stream, whose length is the version it
\* will expect at the append.
Load(p) ==
    /\ procs[p].pc = "read"
    /\ procs' = [procs EXCEPT ![p].pc = "decide",
                              ![p].attempts = @ + 1,
                              ![p].loaded = streams[ConcId],
                              ![p].read_at = now]
    /\ UNCHANGED <<overflow_checks, appVars, foldVars, feedVars>>

\* Mutant: a rejected command starts its cycle again.
Decide_retrying_rejection(p) ==
    /\ procs[p].pc = "decide"
    /\ LET result == decide(ConcId, procs[p].loaded, procs[p].command, now) IN
        procs' = IF result.ok
                 THEN [procs EXCEPT ![p].pc = "append",
                                    ![p].proposed = result.val]
                 ELSE [procs EXCEPT ![p].pc = "read"]
    /\ UNCHANGED <<overflow_checks, appVars, foldVars, feedVars>>

\* The handler replays what it loaded and decides its command, reading the
\* clock: a rejection ends the command and is its result, proposed events
\* go on to the append.
Decide(p) ==
    /\ procs[p].pc = "decide"
    /\ LET result == decide(ConcId, procs[p].loaded, procs[p].command, now) IN
        procs' = IF result.ok
                 THEN [procs EXCEPT ![p].pc = "append",
                                    ![p].proposed = result.val]
                 ELSE [procs EXCEPT ![p].pc = "done",
                                    ![p].result = result]
    /\ UNCHANGED <<overflow_checks, appVars, foldVars, feedVars>>

\* Store append at the expected version: the proposed events are committed.
AppendEvents(p) ==
    /\ procs[p].pc = "append"
    /\ Len(streams[ConcId]) = Len(procs[p].loaded)
    /\ streams' = [streams EXCEPT ![ConcId] = @ \o procs[p].proposed]
    /\ procs' = [procs EXCEPT ![p].pc = "done",
                              ![p].result = Ok(procs[p].proposed)]
    /\ UNCHANGED <<overflow_checks, now, last, delivered, projection,
                   foldVars, feedVars>>

\* Store append at another version than expected: a conflict, nothing is
\* committed, and the cycle starts again from a fresh read.
Conflict(p) ==
    /\ procs[p].pc = "append"
    /\ Len(streams[ConcId]) # Len(procs[p].loaded)
    /\ procs' = [procs EXCEPT ![p].pc = "read", ![p].proposed = <<>>]
    /\ UNCHANGED <<overflow_checks, appVars, foldVars, feedVars>>

NextConc ==
    \/ Tick
    \/ \E p \in Procs : Load(p)
    \/ \E p \in Procs : Decide(p)
    \/ \E p \in Procs : AppendEvents(p)
    \/ \E p \in Procs : Conflict(p)

SpecConc == InitConc /\ [][NextConc]_vars

\* The scheduler is fair to every handler: a step a handler can take is
\* taken in the end.
FairConc ==
    \A p \in Procs :
        /\ WF_vars(Load(p))
        /\ WF_vars(Decide(p))
        /\ WF_vars(AppendEvents(p))
        /\ WF_vars(Conflict(p))

SpecConcFair == SpecConc /\ FairConc

---------------------------------------------------------------------------
(* Properties of SpecConc *)

\* The stream replays, starts with its only Created event when it has
\* events, and holds a Completed or Cancelled event in its last place only.
WellFormed(stream) ==
    /\ replay(stream).ok
    /\ stream # <<>> => stream[1].type = "Created"
    /\ \A i \in 2..Len(stream) : stream[i].type # "Created"
    /\ \A i \in 1..Len(stream) :
            stream[i].type \in {"Completed", "Cancelled"} => i = Len(stream)

\* C12: with appends made only at the version read, every committed stream
\* replays without error: it is empty or starts with its one Created event,
\* and has at most one Completed or Cancelled event, which is its last event.
C12_CommittedStreamsReplay ==
    \A id \in Ids : WellFormed(streams[id])

C12_Witness ==
    \E p \in Procs :
        /\ procs[p].pc = "done"
        /\ procs[p].attempts = 2
        /\ procs[p].result = Err(NotEditable)
        /\ Len(streams[ConcId]) = 2
        /\ streams[ConcId][2].type = "Cancelled"

\* C16: a command rejected at its decision appends nothing and has as its
\* result the error of the decision, an error of the aggregate unless the
\* handler panicked; a command that has ended is not taken up again; and a
\* cycle starts again only from an append that met another version than the
\* one read, which appends nothing.
C16_RejectionIsFinal ==
    [][\A p \in Procs :
        /\ (procs[p].pc = "decide" /\ procs'[p].pc \notin {"decide", "append"}) =>
                /\ streams' = streams
                /\ procs'[p].pc = "done"
                /\ procs'[p].result = decide(ConcId, procs[p].loaded,
                                             procs[p].command, now)
                /\ procs'[p].result.err \in OrderError \cup {Panic}
        /\ procs[p].pc = "done" => procs'[p] = procs[p]
        /\ (procs[p].pc # "read" /\ procs'[p].pc = "read") =>
                /\ procs[p].pc = "append"
                /\ Len(streams[ConcId]) # Len(procs[p].loaded)
                /\ streams' = streams
      ]_vars

C16_Witness ==
    \E p \in Procs :
        /\ procs[p].pc = "done"
        /\ procs[p].attempts = 2
        /\ procs[p].result = Err(AlreadyCreated)
        /\ streams[ConcId] = procs[p].loaded

\* The instant an order's lifecycle state holds.
LifecycleTime(order) ==
    IF is_editable(order) THEN order.state.updated_at ELSE order.state.at

\* C18: the timestamps of every committed stream do not decrease along the
\* stream, every committed event is stamped no earlier than the clock stood
\* at the read of the attempt that committed it, and the lifecycle timestamp
\* of every order is not before its created_at.
C18_TimestampsInOrder ==
    /\ \A id \in Ids :
            \A i \in 1..(Len(streams[id]) - 1) :
                streams[id][i].at <= streams[id][i + 1].at
    /\ \A p \in Procs :
            (procs[p].pc = "done" /\ procs[p].result.ok) =>
                \A i \in 1..Len(procs[p].result.val) :
                    /\ procs[p].result.val[i].at >= procs[p].read_at
                    /\ procs[p].result.val[i].at <= now
    /\ \A id \in Ids :
            LET current == replay(streams[id]) IN
            (current.ok /\ current.val.some) =>
                LifecycleTime(current.val.val) >= current.val.val.created_at

C18_Witness ==
    \E p \in Procs :
        /\ procs[p].pc = "done"
        /\ procs[p].attempts = 2
        /\ procs[p].result.ok
        /\ procs[p].result.val[1].at > procs[p].read_at
        /\ Len(streams[ConcId]) = 3

\* Every command has ended.
AllDone == \A p \in Procs : procs[p].pc = "done"

\* C20: under a fair scheduler every command ends, with its events committed
\* or with an error of the aggregate as its result.
C20_EveryCommandEnds ==
    <>(/\ AllDone
       /\ \A p \in Procs :
              procs[p].result.ok \/ procs[p].result.err \in OrderError)

===========================================================================
